---- MODULE Spec2Model ----
(***************************************************************************)
(* Sparse voxel octree over a signed distance field (src/src/svosdf.rs):   *)
(* BoundingBox, Brick, OctreeNode, the recursive builder                   *)
(* SvoSdf::build_octree, and the binary codec SvoSdf::save / SvoSdf::load. *)
(*                                                                         *)
(* The recursion of build_octree is modelled with an explicit stack of     *)
(* frames, one frame per active call; one action per branch of the code.   *)
(* Samples are u16 and keep their width (arithmetic modulo 2^16, or a      *)
(* panic when the build has overflow checks).                              *)
(***************************************************************************)
EXTENDS Integers, Sequences, FiniteSets, TLC

VARIABLES
    sdf,              \* the input volume: [header, voxels]
    brick_size,       \* from_sdf parameter
    max_depth,        \* from_sdf parameter
    threshold,        \* from_sdf parameter, a fraction <<num, den>>
    overflow_checks,  \* TRUE: arithmetic overflow panics; FALSE: it wraps
    pc,               \* position of the program
    stack,            \* active build_octree calls, innermost last
    svo,              \* the SvoSdf instance; while build_octree runs the root
                      \* being built is the node of the bottom frame of
                      \* `stack`, and svo.root is set when that call returns
    file,             \* bytes written by save
    loaded,           \* the instance returned by load
    call              \* a single call of a pure function and its result

vars == <<sdf, brick_size, max_depth, threshold, overflow_checks,
          pc, stack, svo, file, loaded, call>>

(***************************************************************************)
(* Bounds of the model.                                                    *)
(***************************************************************************)
MaxDim == 3
MaxBrick == 2
MaxDepth == 2
MaxEdge == 3
MaxSamples == 3

\* Sample values of the volumes: fully inside, the zero crossing, fully outside.
Values == {0, 32768, 65535}
\* Thresholds of the builder as fractions num/den of the 16-bit range: the
\* default 0.01, one half (32768 and 65535 are then within the threshold of
\* each other) and the whole range (LEVEL_ZERO +/- threshold overflows u16).
Thresholds == {<<1, 100>>, <<1, 2>>, <<1, 1>>}

\* Sample values of the bricks handed to has_surface and is_uniform alone:
\* the extremes, LEVEL_ZERO, and both sides of LEVEL_ZERO -/+ 655 (the
\* quantized default threshold 0.01).
SampleValues == {0, 32112, 32113, 32768, 33423, 33424, 65535}
\* Thresholds handed to has_surface and is_uniform alone.
CallThresholds == {<<0, 1>>, <<1, 100>>, <<1, 2>>, <<3, 4>>, <<1, 1>>}

(***************************************************************************)
(* Option<T>                                                               *)
(***************************************************************************)
None == <<>>
Some(x) == <<x>>
IsSome(o) == o # <<>>
Unwrap(o) == o[1]

Abs(x) == IF x < 0 THEN -x ELSE x
Min2(a, b) == IF a <= b THEN a ELSE b
Max2(a, b) == IF a >= b THEN a ELSE b

LEVEL_ZERO == 65536 \div 2
U16Modulus == 2 ^ 16
U16Max == U16Modulus - 1

(***************************************************************************)
(* BoundingBox                                                             *)
(***************************************************************************)
BoundingBoxNew(min, max) == [min |-> min, max |-> max]

Size(b) == <<b.max[1] - b.min[1], b.max[2] - b.min[2], b.max[3] - b.min[3]>>

CenterAtMin(b) == b.min

CenterRoundedUp(b) == <<(b.min[1] + b.max[1] + 1) \div 2,
                        (b.min[2] + b.max[2] + 1) \div 2,
                        (b.min[3] + b.max[3] + 1) \div 2>>

Center(b) == <<(b.min[1] + b.max[1]) \div 2,
               (b.min[2] + b.max[2]) \div 2,
               (b.min[3] + b.max[3]) \div 2>>

ChildBounds(b, child_index) ==
    LET center == Center(b)
        cx == center[1]
        cy == center[2]
        cz == center[3]
    IN CASE child_index = 0 -> BoundingBoxNew(b.min, center)
         [] child_index = 1 -> BoundingBoxNew(<<cx, b.min[2], b.min[3]>>, <<b.max[1], cy, cz>>)
         [] child_index = 2 -> BoundingBoxNew(<<b.min[1], cy, b.min[3]>>, <<cx, b.max[2], cz>>)
         [] child_index = 3 -> BoundingBoxNew(<<cx, cy, b.min[3]>>, <<b.max[1], b.max[2], cz>>)
         [] child_index = 4 -> BoundingBoxNew(<<b.min[1], b.min[2], cz>>, <<cx, cy, b.max[3]>>)
         [] child_index = 5 -> BoundingBoxNew(<<cx, b.min[2], cz>>, <<b.max[1], cy, b.max[3]>>)
         [] child_index = 6 -> BoundingBoxNew(<<b.min[1], cy, cz>>, <<cx, b.max[2], b.max[3]>>)
         [] child_index = 7 -> BoundingBoxNew(center, b.max)
         [] OTHER -> "panic: Invalid child index"

(***************************************************************************)
(* OctreeNode                                                              *)
(***************************************************************************)
OctreeNodeNew(bounds) ==
    [children |-> <<None, None, None, None, None, None, None, None>>,
     brick_index |-> None,
     is_leaf |-> FALSE,
     bounds |-> bounds]

IsEmptyUnlessLeaf(node) ==
    /\ ~node.is_leaf
    /\ ~IsSome(node.brick_index)
    /\ \A k \in 1..8 : ~IsSome(node.children[k])

IsEmpty(node) ==
    /\ ~IsSome(node.brick_index)
    /\ \A k \in 1..8 : ~IsSome(node.children[k])

(***************************************************************************)
(* Brick                                                                   *)
(***************************************************************************)
BrickNew(size, position) ==
    [data |-> [k \in 1..(size * size * size) |-> LEVEL_ZERO],
     size |-> size,
     position |-> position]

\* A row read from its far end: stays inside the voxel array, reads the
\* wrong sample.
SrcIndexMirroredX(stride_y, stride_z, src_x, src_y, src_z) ==
    (stride_y - 1 - src_x) + src_y * stride_y + src_z * stride_z

\* The index of source sample (src_x, src_y, src_z) in the flat voxel array.

SrcIndex(stride_y, stride_z, src_x, src_y, src_z) ==
    src_x + src_y * stride_y + src_z * stride_z

\* The sample that the x/y/z loops of extract_from_sdf leave at index
\* dst_index of the brick: the loops visit every (x, y, z) of [0, size)^3
\* once, and the iteration with x + y*size + z*size*size = dst_index writes
\* the source sample there if it is inside the grid, and nothing otherwise.
ExtractLoop(s, brick, dst_index) ==
    LET size == brick.size
        x == dst_index % size
        y == (dst_index \div size) % size
        z == dst_index \div (size * size)
        stride_y == s.header.dim[1]
        stride_z == s.header.dim[1] * s.header.dim[2]
        src_x == brick.position[1] + x
        src_y == brick.position[2] + y
        src_z == brick.position[3] + z
        src_index == SrcIndex(stride_y, stride_z, src_x, src_y, src_z)
    IN IF src_x < s.header.dim[1] /\ src_y < s.header.dim[2] /\ src_z < s.header.dim[3]
       THEN s.voxels[src_index + 1]
       ELSE brick.data[dst_index + 1]

\* let mut brick = Brick::new(size, position), then the loops over it; the
\* new brick is bound once, as the code constructs it once.
ExtractFromSdf(s, position, size) ==
    CHOOSE filled \in {[brick EXCEPT !.data = [k \in 1..Len(brick.data) |-> ExtractLoop(s, brick, k - 1)]] :
                          brick \in {BrickNew(size, position)}} : TRUE

\* (threshold * 65535.0) as u16: the cast truncates toward zero and saturates.
ThresholdU16(t) ==
    LET p == (t[1] * 65535) \div t[2]
    IN IF p > U16Max THEN U16Max ELSE IF p < 0 THEN 0 ELSE p

\* Result of a call that may panic.
Panicked == [panic |-> TRUE, value |-> FALSE]
Returned(v) == [panic |-> FALSE, value |-> v]

HasSurfaceLoopEither(data, k, lo, hi) ==
    \/ \E j \in 1..k : data[j] < lo
    \/ \E j \in 1..k : data[j] > hi

\* The test `has_inside && has_outside` of has_surface at the end of the
\* iteration on sample k: each flag has been set by some sample up to k.
HasSurfaceLoop(data, k, lo, hi) ==
    /\ \E j \in 1..k : data[j] < lo
    /\ \E j \in 1..k : data[j] > hi

\* LEVEL_ZERO - threshold_u16 and LEVEL_ZERO + threshold_u16 are u16
\* operations, evaluated for every sample: with overflow checks the first
\* iteration panics when either leaves the u16 range, without them both wrap.
\* The loop returns true at the first iteration whose test succeeds, and
\* false after the last iteration otherwise; a flag once set stays set, so
\* the test succeeds at some iteration exactly if it succeeds at the last.
HasSurface(brick, t, checks) ==
    LET threshold_u16 == ThresholdU16(t)
        lo == (LEVEL_ZERO - threshold_u16) % U16Modulus
        hi == (LEVEL_ZERO + threshold_u16) % U16Modulus
    IN IF Len(brick.data) = 0 THEN Returned(FALSE)
       ELSE IF checks /\ (LEVEL_ZERO - threshold_u16 < 0 \/ LEVEL_ZERO + threshold_u16 > U16Max)
       THEN Panicked
       ELSE Returned(HasSurfaceLoop(brick.data, Len(brick.data), lo, hi))

IsUniformStrict(brick, t) ==
    IF Len(brick.data) = 0 THEN TRUE
    ELSE LET threshold_u16 == ThresholdU16(t)
             first_value == brick.data[1]
         IN \A k \in 1..Len(brick.data) :
                Abs(brick.data[k] - first_value) < threshold_u16

IsUniform(brick, t) ==
    IF Len(brick.data) = 0 THEN TRUE
    ELSE LET threshold_u16 == ThresholdU16(t)
             first_value == brick.data[1]
         IN \A k \in 1..Len(brick.data) :
                Abs(brick.data[k] - first_value) <= threshold_u16

(***************************************************************************)
(* SvoSdf::from_sdf and SvoSdf::build_octree                               *)
(***************************************************************************)
\* A frame is one active call of build_octree: the node it works on, its
\* depth argument, the loop counter i and the position inside the body.
Frame(node, depth) == [node |-> node, depth |-> depth, i |-> 0, phase |-> "enter"]

Top == stack[Len(stack)]

SetTop(f) == [stack EXCEPT ![Len(stack)] = f]

LeafCondSizeOnly(f) ==
    LET bounds_size == Size(f.node.bounds)
        min_size == brick_size
    IN bounds_size[1] <= min_size /\ bounds_size[2] <= min_size /\ bounds_size[3] <= min_size

\* depth >= max_depth || all three dimensions <= brick_size
LeafCond(f) ==
    LET bounds_size == Size(f.node.bounds)
        min_size == brick_size
    IN \/ f.depth >= max_depth
       \/ (bounds_size[1] <= min_size /\ bounds_size[2] <= min_size /\ bounds_size[3] <= min_size)

LeafBrickMinEdge(f) ==
    LET bounds_size == Size(f.node.bounds)
    IN ExtractFromSdf(sdf, f.node.bounds.min,
                      Min2(brick_size, Min2(bounds_size[1], Min2(bounds_size[2], bounds_size[3]))))

\* The brick extracted in the leaf branch.
LeafBrick(f) ==
    LET bounds_size == Size(f.node.bounds)
    IN ExtractFromSdf(sdf, f.node.bounds.min,
                      Min2(brick_size, Max2(bounds_size[1], Max2(bounds_size[2], bounds_size[3]))))

\* The coarse probe of the subdivision branch.
TestBrick(f) ==
    LET bounds_size == Size(f.node.bounds)
    IN ExtractFromSdf(sdf, f.node.bounds.min,
                      Min2(bounds_size[1], Min2(bounds_size[2], bounds_size[3])))

StoreBrickAlways(brick) == TRUE

\* brick.has_surface(threshold) || !brick.is_uniform(threshold)
StoreBrick(brick) ==
    HasSurface(brick, threshold, overflow_checks).value \/ ~IsUniform(brick, threshold)

SkipRegionNoUniformTest(brick) ==
    ~HasSurface(brick, threshold, overflow_checks).value

\* !test_brick.has_surface(threshold) && test_brick.is_uniform(threshold)
SkipRegion(brick) ==
    ~HasSurface(brick, threshold, overflow_checks).value /\ IsUniform(brick, threshold)

\* The brick whose has_surface is evaluated first when the call is entered.
EnteredBrick(f) == IF LeafCond(f) THEN LeafBrick(f) ELSE TestBrick(f)

WithBrickFirst(node, index) == [node EXCEPT !.brick_index = Some(0)]

WithBrickOffByOne(node, index) == [node EXCEPT !.brick_index = Some(index + 1)]

\* node.brick_index = Some(self.bricks.len() as u32)
WithBrick(node, index) == [node EXCEPT !.brick_index = Some(index)]

PushBrickFront(bricks, brick) == <<brick>> \o bricks

\* self.bricks.push(brick)
PushBrick(bricks, brick) == Append(bricks, brick)

\* node.is_leaf = true
AsLeafForgotten(node) == node

AsLeaf(node) == [node EXCEPT !.is_leaf = TRUE]

BuildLeaf ==
    /\ pc = "build"
    /\ Top.phase = "enter"
    /\ LeafCond(Top)
    /\ \E brick \in {LeafBrick(Top)} :
          /\ ~HasSurface(brick, threshold, overflow_checks).panic
          /\ IF StoreBrick(brick)
             THEN /\ stack' = SetTop([Top EXCEPT !.node = AsLeaf(WithBrick(Top.node, Len(svo.bricks))),
                                                 !.phase = "ret_leaf"])
                  /\ svo' = [svo EXCEPT !.bricks = PushBrick(svo.bricks, brick)]
             ELSE /\ stack' = SetTop([Top EXCEPT !.node = AsLeaf(Top.node),
                                                 !.phase = "ret_leaf"])
                  /\ UNCHANGED svo
    /\ UNCHANGED <<sdf, brick_size, max_depth, threshold, overflow_checks, pc, file, loaded, call>>

BuildPrune ==
    /\ pc = "build"
    /\ Top.phase = "enter"
    /\ ~LeafCond(Top)
    /\ \E test_brick \in {TestBrick(Top)} :
          /\ ~HasSurface(test_brick, threshold, overflow_checks).panic
          /\ SkipRegion(test_brick) = TRUE
    /\ stack' = SetTop([Top EXCEPT !.phase = "ret_prune"])
    /\ UNCHANGED <<sdf, brick_size, max_depth, threshold, overflow_checks, pc, svo, file, loaded, call>>

BuildSubdivide ==
    /\ pc = "build"
    /\ Top.phase = "enter"
    /\ ~LeafCond(Top)
    /\ \E test_brick \in {TestBrick(Top)} :
          /\ ~HasSurface(test_brick, threshold, overflow_checks).panic
          /\ ~SkipRegion(test_brick)
    /\ stack' = SetTop([Top EXCEPT !.phase = "loop", !.i = 0])
    /\ UNCHANGED <<sdf, brick_size, max_depth, threshold, overflow_checks, pc, svo, file, loaded, call>>

\* has_surface overflows in a build with overflow checks: the process aborts.
BuildPanic ==
    /\ pc = "build"
    /\ Top.phase = "enter"
    /\ \E brick \in {EnteredBrick(Top)} : HasSurface(brick, threshold, overflow_checks).panic
    /\ pc' = "panic"
    /\ UNCHANGED <<sdf, brick_size, max_depth, threshold, overflow_checks, stack, svo, file, loaded, call>>

\* for i in 0..8: create the child node and call build_octree on it.
BuildChild ==
    /\ pc = "build"
    /\ Top.phase = "loop"
    /\ Top.i < 8
    /\ stack' = Append(stack, Frame(OctreeNodeNew(ChildBounds(Top.node.bounds, Top.i)), Top.depth + 1))
    /\ UNCHANGED <<sdf, brick_size, max_depth, threshold, overflow_checks, pc, svo, file, loaded, call>>

\* The call for child i returns; the parent keeps the child if it is not empty.
BuildReturn ==
    /\ pc = "build"
    /\ Len(stack) > 1
    /\ Top.phase \in {"ret_leaf", "ret_prune", "ret_loop"}
    /\ LET child_node == Top.node
           parent == stack[Len(stack) - 1]
           kept == IF ~IsEmpty(child_node)
                   THEN [parent EXCEPT !.node.children[parent.i + 1] = Some(child_node)]
                   ELSE parent
       IN stack' = [SubSeq(stack, 1, Len(stack) - 1) EXCEPT ![Len(stack) - 1] = [kept EXCEPT !.i = parent.i + 1]]
    /\ UNCHANGED <<sdf, brick_size, max_depth, threshold, overflow_checks, pc, svo, file, loaded, call>>

\* The loop over the 8 children is over.
BuildLoopEnd ==
    /\ pc = "build"
    /\ Top.phase = "loop"
    /\ Top.i = 8
    /\ stack' = SetTop([Top EXCEPT !.phase = "ret_loop"])
    /\ UNCHANGED <<sdf, brick_size, max_depth, threshold, overflow_checks, pc, svo, file, loaded, call>>

\* The outermost call returns to from_sdf, which returns the instance.
BuildDone ==
    /\ pc = "build"
    /\ Len(stack) = 1
    /\ Top.phase \in {"ret_leaf", "ret_prune", "ret_loop"}
    /\ svo' = [svo EXCEPT !.root = Top.node]
    /\ stack' = <<>>
    /\ pc' = "built"
    /\ UNCHANGED <<sdf, brick_size, max_depth, threshold, overflow_checks, file, loaded, call>>

\* f32 values as the four bytes of their IEEE-754 bit pattern, most
\* significant first: 0.0, 1.0, -1.0, 0.25
F32Zero == <<0, 0, 0, 0>>
F32One == <<63, 128, 0, 0>>
F32MinusOne == <<191, 128, 0, 0>>
F32Quarter == <<62, 128, 0, 0>>

(***************************************************************************)
(* StorerVec and Loader (crate::serialization): fixed-width little-endian  *)
(* fields appended to / read from a byte vector at a running position.     *)
(***************************************************************************)
StoreU8(v, x) == Append(v, x % 256)

StoreU32(v, x) ==
    v \o <<x % 256, (x \div 256) % 256, (x \div 65536) % 256, (x \div 16777216) % 256>>

\* An f32 is held as the bytes of its bit pattern, most significant first.
StoreF32(v, f) == v \o <<f[4], f[3], f[2], f[1]>>

\* The samples one after the other, two bytes each.
StoreArrayU16(v, data) ==
    v \o [j \in 1..(2 * Len(data)) |->
            IF j % 2 = 1 THEN data[(j + 1) \div 2] % 256
                         ELSE (data[j \div 2] \div 256) % 256]

\* pos: the read position; fault: a read went past the end of the bytes;
\* wide: a u32 of 2^31 or more was read, which is outside the integers of
\* the model (the value is then kept modulo 2^31).
LoaderNew == [pos |-> 0, fault |-> FALSE, wide |-> FALSE]

\* Whether n more bytes can be read.
CanRead(l, bytes, n) == ~l.fault /\ l.pos + n <= Len(bytes)

Faulted(l, v) == [val |-> v, loader |-> [l EXCEPT !.fault = TRUE]]

LoadU8(l, bytes) ==
    IF ~CanRead(l, bytes, 1) THEN Faulted(l, 0)
    ELSE [val |-> bytes[l.pos + 1], loader |-> [l EXCEPT !.pos = l.pos + 1]]

LoadU32(l, bytes) ==
    IF ~CanRead(l, bytes, 4) THEN Faulted(l, 0)
    ELSE [val |-> bytes[l.pos + 1] + 256 * bytes[l.pos + 2]
                  + 65536 * bytes[l.pos + 3] + 16777216 * (bytes[l.pos + 4] % 128),
          loader |-> [l EXCEPT !.pos = l.pos + 4,
                               !.wide = l.wide \/ bytes[l.pos + 4] >= 128]]

LoadF32(l, bytes) ==
    IF ~CanRead(l, bytes, 4) THEN Faulted(l, F32Zero)
    ELSE [val |-> <<bytes[l.pos + 4], bytes[l.pos + 3], bytes[l.pos + 2], bytes[l.pos + 1]>>,
          loader |-> [l EXCEPT !.pos = l.pos + 4]]

LoadArrayU16Short(l, bytes, count) ==
    IF ~CanRead(l, bytes, 2 * count) THEN Faulted(l, <<>>)
    ELSE [val |-> [k \in 1..count |-> bytes[l.pos + 2 * k - 1] + 256 * bytes[l.pos + 2 * k]],
          loader |-> [l EXCEPT !.pos = l.pos + count]]

LoadArrayU16(l, bytes, count) ==
    IF ~CanRead(l, bytes, 2 * count) THEN Faulted(l, <<>>)
    ELSE [val |-> [k \in 1..count |-> bytes[l.pos + 2 * k - 1] + 256 * bytes[l.pos + 2 * k]],
          loader |-> [l EXCEPT !.pos = l.pos + 2 * count]]

(***************************************************************************)
(* SvoSdf::save and SvoSdf::serialize_node                                 *)
(***************************************************************************)
RECURSIVE ChildMaskReversed(_, _)
ChildMaskReversed(node, i) ==
    IF i >= 8 THEN 0
    ELSE (IF IsSome(node.children[i + 1]) THEN 2 ^ (7 - i) ELSE 0) + ChildMaskReversed(node, i + 1)

\* child_mask |= 1 << i for every present child i, from child i on.
RECURSIVE ChildMask(_, _)
ChildMask(node, i) ==
    IF i >= 8 THEN 0
    ELSE (IF IsSome(node.children[i + 1]) THEN 2 ^ i ELSE 0) + ChildMask(node, i + 1)

SerializeChildrenOmitted(node, v, i) == v

RECURSIVE SerializeNode(_, _)
RECURSIVE SerializeChildren(_, _, _)

\* The loop "for child in &node.children" from child i on; each present
\* child appends its record to the storer.
SerializeChildren(node, v, i) ==
    IF i >= 8 THEN v
    ELSE IF IsSome(node.children[i + 1])
         THEN SerializeChildren(node, v \o SerializeNode(Unwrap(node.children[i + 1]), <<>>), i + 1)
         ELSE SerializeChildren(node, v, i + 1)

SerializeNode(node, v) ==
    LET v1 == StoreU8(v, IF node.is_leaf THEN 1 ELSE 0)
        v2 == IF IsSome(node.brick_index)
              THEN StoreU32(StoreU8(v1, 1), Unwrap(node.brick_index))
              ELSE StoreU8(v1, 0)
        v3 == StoreU32(StoreU32(StoreU32(v2, node.bounds.min[1]), node.bounds.min[2]), node.bounds.min[3])
        v4 == StoreU32(StoreU32(StoreU32(v3, node.bounds.max[1]), node.bounds.max[2]), node.bounds.max[3])
    IN IF ~node.is_leaf
       THEN SerializeChildren(node, StoreU8(v4, ChildMask(node, 0)), 0)
       ELSE v4

\* What one iteration of the loop "for brick in &self.bricks" stores.
StoreBrickRecord(v, brick) ==
    LET v1 == StoreU32(v, brick.size)
        v2 == StoreU32(StoreU32(StoreU32(v1, brick.position[1]), brick.position[2]), brick.position[3])
    IN StoreArrayU16(v2, brick.data)

\* The loop "for brick in &self.bricks" from brick k on.
RECURSIVE StoreBricks(_, _, _)
StoreBricks(v, bricks, k) ==
    IF k > Len(bricks) THEN v
    ELSE StoreBricks(v \o StoreBrickRecord(<<>>, bricks[k]), bricks, k + 1)

SaveBytes(s) ==
    LET v1 == StoreU32(StoreU32(StoreU32(<<>>, s.header.dim[1]), s.header.dim[2]), s.header.dim[3])
        v2 == StoreF32(StoreF32(StoreF32(v1, s.header.box_min[1]), s.header.box_min[2]), s.header.box_min[3])
        v3 == StoreF32(v2, s.header.dx)
        v4 == StoreU32(v3, s.brick_size)
        v5 == StoreU32(v4, Len(s.bricks))
        v6 == StoreBricks(v5, s.bricks, 1)
    IN SerializeNode(s.root, v6)

Save ==
    /\ pc = "built"
    /\ file' = SaveBytes(svo)
    /\ pc' = "saved"
    /\ UNCHANGED <<sdf, brick_size, max_depth, threshold, overflow_checks, stack, svo, loaded, call>>

(***************************************************************************)
(* SvoSdf::load and SvoSdf::deserialize_node                               *)
(***************************************************************************)
LoadedNodeStoredBounds(is_leaf, brick_index, bounds, stored) ==
    [children |-> <<None, None, None, None, None, None, None, None>>,
     brick_index |-> brick_index,
     is_leaf |-> is_leaf,
     bounds |-> stored]

\* The node deserialize_node builds from a record: the six bounds words it
\* has read (`stored`) are dropped, the bounds are the ones passed down.
LoadedNode(is_leaf, brick_index, bounds, stored) ==
    [children |-> <<None, None, None, None, None, None, None, None>>,
     brick_index |-> brick_index,
     is_leaf |-> is_leaf,
     bounds |-> bounds]

DeserializeChildrenSkipped(l, bytes, node, child_mask, i) == [node |-> node, loader |-> l]

RECURSIVE DeserializeNode(_, _, _)
RECURSIVE DeserializeChildren(_, _, _, _, _)

\* The loop "for i in 0..8" of deserialize_node from child i on.
DeserializeChildren(l, bytes, node, child_mask, i) ==
    IF i >= 8 THEN [node |-> node, loader |-> l]
    ELSE IF (child_mask \div (2 ^ i)) % 2 # 0 /\ ~l.fault
         THEN LET child_bounds == ChildBounds(node.bounds, i)
                  c == DeserializeNode(l, bytes, child_bounds)
              IN DeserializeChildren(c.loader, bytes,
                                     [node EXCEPT !.children[i + 1] = Some(c.node)],
                                     child_mask, i + 1)
         ELSE DeserializeChildren(l, bytes, node, child_mask, i + 1)

DeserializeNode(l, bytes, bounds) ==
    LET r1 == LoadU8(l, bytes)
        is_leaf == r1.val # 0
        r2 == LoadU8(r1.loader, bytes)
        r3 == IF r2.val # 0 THEN LoadU32(r2.loader, bytes) ELSE [val |-> 0, loader |-> r2.loader]
        brick_index == IF r2.val # 0 THEN Some(r3.val) ELSE None
        _min_x == LoadU32(r3.loader, bytes)
        _min_y == LoadU32(_min_x.loader, bytes)
        _min_z == LoadU32(_min_y.loader, bytes)
        _max_x == LoadU32(_min_z.loader, bytes)
        _max_y == LoadU32(_max_x.loader, bytes)
        _max_z == LoadU32(_max_y.loader, bytes)
        node == LoadedNode(is_leaf, brick_index, bounds,
                           BoundingBoxNew(<<_min_x.val, _min_y.val, _min_z.val>>,
                                          <<_max_x.val, _max_y.val, _max_z.val>>))
    IN IF ~is_leaf
       THEN LET r4 == LoadU8(_max_z.loader, bytes)
            IN DeserializeChildren(r4.loader, bytes, node, r4.val, 0)
       ELSE [node |-> node, loader |-> _max_z.loader]

\* Brick sizes above this have a cube of 2^31 or more: outside the integers
\* of the model.
MaxModelledSize == 2 ^ 10

\* The loop "for _ in 0..brick_count" with `remaining` iterations to go.
RECURSIVE LoadBricks(_, _, _, _)
LoadBricks(l, bytes, remaining, bricks) ==
    IF remaining = 0 \/ l.fault THEN [val |-> bricks, loader |-> l]
    ELSE LET size == LoadU32(l, bytes)
             px == LoadU32(size.loader, bytes)
             py == LoadU32(px.loader, bytes)
             pz == LoadU32(py.loader, bytes)
             data == IF size.val > MaxModelledSize
                     THEN Faulted([pz.loader EXCEPT !.wide = TRUE], <<>>)
                     ELSE LoadArrayU16(pz.loader, bytes, size.val * size.val * size.val)
         IN LoadBricks(data.loader, bytes, remaining - 1,
                       Append(bricks, [data |-> data.val,
                                       size |-> size.val,
                                       position |-> <<px.val, py.val, pz.val>>]))

LoadRootBoundsSwapped(header) == BoundingBoxNew(<<0, 0, 0>>, <<header.dim[3], header.dim[2], header.dim[1]>>)

LoadRootBoundsUnit(header) == BoundingBoxNew(<<0, 0, 0>>, <<1, 1, 1>>)

\* BoundingBox::new((0, 0, 0), header.dim)
LoadRootBounds(header) == BoundingBoxNew(<<0, 0, 0>>, header.dim)

\* The result of load: the instance and the loader's final state.
LoadBytes(bytes) ==
    LET d1 == LoadU32(LoaderNew, bytes)
        d2 == LoadU32(d1.loader, bytes)
        d3 == LoadU32(d2.loader, bytes)
        b1 == LoadF32(d3.loader, bytes)
        b2 == LoadF32(b1.loader, bytes)
        b3 == LoadF32(b2.loader, bytes)
        dx == LoadF32(b3.loader, bytes)
        header == [dim |-> <<d1.val, d2.val, d3.val>>,
                   box_min |-> <<b1.val, b2.val, b3.val>>,
                   dx |-> dx.val]
        bs == LoadU32(dx.loader, bytes)
        brick_count == LoadU32(bs.loader, bytes)
        bricks == LoadBricks(brick_count.loader, bytes, brick_count.val, <<>>)
        bounds == LoadRootBounds(header)
        root == DeserializeNode(bricks.loader, bytes, bounds)
    IN [val |-> [header |-> header,
                 root |-> root.node,
                 bricks |-> bricks.val,
                 brick_size |-> bs.val],
        loader |-> root.loader]

\* load returns the instance: no read went past the end of the bytes.
Load ==
    /\ pc \in {"saved", "tampered"}
    /\ ~LoadBytes(file).loader.fault
    /\ loaded' = Some(LoadBytes(file).val)
    /\ pc' = "loaded"
    /\ UNCHANGED <<sdf, brick_size, max_depth, threshold, overflow_checks, stack, svo, file, call>>

\* A read went past the end of the bytes: load aborts and returns nothing.
LoadFail ==
    /\ pc \in {"saved", "tampered"}
    /\ LoadBytes(file).loader.fault
    /\ pc' = "load_failed"
    /\ UNCHANGED <<sdf, brick_size, max_depth, threshold, overflow_checks, stack, svo, file, loaded, call>>

(***************************************************************************)
(* The file between save and load: std::fs::read returns whatever the file *)
(* holds by then, which need not be what save wrote.                       *)
(***************************************************************************)
\* The file is cut short: a strict prefix of what save wrote remains.
Truncate ==
    /\ pc = "saved"
    /\ \E n \in 0..(Len(file) - 1) : file' = SubSeq(file, 1, n)
    /\ pc' = "tampered"
    /\ UNCHANGED <<sdf, brick_size, max_depth, threshold, overflow_checks, stack, svo, loaded, call>>

\* Values a byte of the file is overwritten with.
CorruptBytes == {0, 1, 2}

\* One byte of the file is overwritten; the length stays. Files in which
\* load would read a u32 of 2^31 or more are left out.
Corrupt ==
    /\ pc = "saved"
    /\ \E p \in 1..Len(file), b \in CorruptBytes :
          /\ file[p] # b
          /\ ~LoadBytes([file EXCEPT ![p] = b]).loader.wide
          /\ file' = [file EXCEPT ![p] = b]
    /\ pc' = "tampered"
    /\ UNCHANGED <<sdf, brick_size, max_depth, threshold, overflow_checks, stack, svo, loaded, call>>

(***************************************************************************)
(* Inputs                                                                  *)
(***************************************************************************)
HeaderFloats == {[box_min |-> <<F32MinusOne, F32Zero, F32One>>, dx |-> F32Quarter]}

Dims == {<<x, y, z>> : x \in 1..MaxDim, y \in 1..MaxDim, z \in 1..MaxDim}

VoxelCount(dim) == dim[1] * dim[2] * dim[3]

\* A volume whose samples are all bg, except the one at index pos (if pos > 0).
Volume(dim, hf, bg, pos, sp) ==
    [header |-> [dim |-> dim, box_min |-> hf.box_min, dx |-> hf.dx],
     voxels |-> [k \in 1..VoxelCount(dim) |-> IF k = pos THEN sp ELSE bg]]

NoCall == [op |-> "none"]

\* from_sdf: the root box covers the grid, the brick list is empty, and
\* build_octree is called on the root at depth 0.
Init ==
    /\ \E dim \in Dims, hf \in HeaderFloats, bg \in Values, sp \in Values, pos \in 0..(MaxDim * MaxDim * MaxDim) :
          /\ pos <= VoxelCount(dim)
          /\ (pos = 0) = (sp = bg)
          /\ sdf = Volume(dim, hf, bg, pos, sp)
    /\ brick_size \in 1..MaxBrick
    /\ max_depth \in 0..MaxDepth
    /\ threshold \in Thresholds
    /\ overflow_checks \in BOOLEAN
    /\ pc = "build"
    /\ stack = <<Frame(OctreeNodeNew(BoundingBoxNew(<<0, 0, 0>>, sdf.header.dim)), 0)>>
    /\ svo = [header |-> sdf.header,
              root |-> OctreeNodeNew(BoundingBoxNew(<<0, 0, 0>>, sdf.header.dim)),
              bricks |-> <<>>,
              brick_size |-> brick_size]
    /\ file = <<>>
    /\ loaded = None
    /\ call = NoCall

Next ==
    \/ BuildLeaf
    \/ BuildPrune
    \/ BuildSubdivide
    \/ BuildPanic
    \/ BuildChild
    \/ BuildReturn
    \/ BuildLoopEnd
    \/ BuildDone
    \/ Save
    \/ Load

Spec == Init /\ [][Next]_vars

(***************************************************************************)
(* The example volumes: a 16x16x16 volume of LEVEL_ZERO with one sample at *)
(* the centre set to another value, and an 8x8x8 volume of LEVEL_ZERO,     *)
(* built with the brick sizes, depths and thresholds around the examples'. *)
(***************************************************************************)
ScenarioDim == <<16, 16, 16>>
SmallScenarioDim == <<8, 8, 8>>
ScenarioBricks == {4, 8}
ScenarioDepths == {1, 2}
ScenarioThresholds == {<<1, 100>>, <<1, 2>>, <<1, 1>>}
\* Values of the centre sample: the extremes, and LEVEL_ZERO + 655, which is
\* within the quantized default threshold of LEVEL_ZERO.
OffsetValues == {0, 33423, 65535}

\* Index in the flat voxel array (from 1) of grid coordinate p.
VoxelIndex(dim, p) == 1 + p[1] + dim[1] * (p[2] + dim[2] * p[3])

\* The two samples next to the centre of the even-sized grid.
Centres == {[a \in 1..3 |-> ScenarioDim[a] \div 2 - 1], [a \in 1..3 |-> ScenarioDim[a] \div 2]}

ScenarioVolumes ==
    LET big == ScenarioDim
        small == SmallScenarioDim
    IN {Volume(big, hf, LEVEL_ZERO, VoxelIndex(big, c), sp) :
            hf \in HeaderFloats, c \in Centres, sp \in OffsetValues}
       \cup {Volume(small, hf, LEVEL_ZERO, 0, LEVEL_ZERO) : hf \in HeaderFloats}

InitScenarios ==
    /\ sdf \in ScenarioVolumes
    /\ brick_size \in ScenarioBricks
    /\ max_depth \in ScenarioDepths
    /\ threshold \in ScenarioThresholds
    /\ overflow_checks \in BOOLEAN
    /\ pc = "build"
    /\ stack = <<Frame(OctreeNodeNew(BoundingBoxNew(<<0, 0, 0>>, sdf.header.dim)), 0)>>
    /\ svo = [header |-> sdf.header,
              root |-> OctreeNodeNew(BoundingBoxNew(<<0, 0, 0>>, sdf.header.dim)),
              bricks |-> <<>>,
              brick_size |-> brick_size]
    /\ file = <<>>
    /\ loaded = None
    /\ call = NoCall

SpecScenarios == InitScenarios /\ [][Next]_vars

(***************************************************************************)
(* Build, save, then load a file that may have been cut short or           *)
(* overwritten in one byte, over grids of 1x1x1, 2x1x1 and 2x2x2 samples.  *)
(***************************************************************************)
FileDims == {<<1, 1, 1>>, <<2, 1, 1>>, <<2, 2, 2>>}
FileThresholds == {<<1, 100>>, <<1, 1>>}

InitFiles ==
    /\ \E dim \in FileDims, hf \in HeaderFloats, bg \in Values, sp \in Values, pos \in 0..(MaxDim * MaxDim * MaxDim) :
          /\ pos <= VoxelCount(dim)
          /\ (pos = 0) = (sp = bg)
          /\ sdf = Volume(dim, hf, bg, pos, sp)
    /\ brick_size = 1
    /\ max_depth \in {0, 1}
    /\ threshold \in FileThresholds
    /\ overflow_checks \in BOOLEAN
    /\ pc = "build"
    /\ stack = <<Frame(OctreeNodeNew(BoundingBoxNew(<<0, 0, 0>>, sdf.header.dim)), 0)>>
    /\ svo = [header |-> sdf.header,
              root |-> OctreeNodeNew(BoundingBoxNew(<<0, 0, 0>>, sdf.header.dim)),
              bricks |-> <<>>,
              brick_size |-> brick_size]
    /\ file = <<>>
    /\ loaded = None
    /\ call = NoCall

NextFiles ==
    \/ Next
    \/ Truncate
    \/ Corrupt
    \/ LoadFail

SpecFiles == InitFiles /\ [][NextFiles]_vars

(***************************************************************************)
(* The build alone, run to its end: from_sdf keeps executing until         *)
(* build_octree has returned or the process has aborted. brick_size 0 is   *)
(* included: no box with samples then fits a brick.                        *)
(***************************************************************************)
BuildDims == {<<1, 1, 1>>, <<2, 2, 2>>}
BuildBricks == {0, 1}

InitBuild ==
    /\ \E dim \in BuildDims, hf \in HeaderFloats, bg \in Values, sp \in Values, pos \in 0..(MaxDim * MaxDim * MaxDim) :
          /\ pos <= VoxelCount(dim)
          /\ (pos = 0) = (sp = bg)
          /\ sdf = Volume(dim, hf, bg, pos, sp)
    /\ brick_size \in BuildBricks
    /\ max_depth \in 0..MaxDepth
    /\ threshold \in FileThresholds
    /\ overflow_checks \in BOOLEAN
    /\ pc = "build"
    /\ stack = <<Frame(OctreeNodeNew(BoundingBoxNew(<<0, 0, 0>>, sdf.header.dim)), 0)>>
    /\ svo = [header |-> sdf.header,
              root |-> OctreeNodeNew(BoundingBoxNew(<<0, 0, 0>>, sdf.header.dim)),
              bricks |-> <<>>,
              brick_size |-> brick_size]
    /\ file = <<>>
    /\ loaded = None
    /\ call = NoCall

NextBuild ==
    \/ BuildLeaf
    \/ BuildPrune
    \/ BuildSubdivide
    \/ BuildPanic
    \/ BuildChild
    \/ BuildReturn
    \/ BuildLoopEnd
    \/ BuildDone

SpecBuild == InitBuild /\ [][NextBuild]_vars /\ WF_vars(NextBuild)

(***************************************************************************)
(* Single calls of the pure functions: the arguments are drawn by the      *)
(* initial state, the action applies the function and records the result.  *)
(***************************************************************************)
\* A volume in which every sample holds its own index (all distinct).
IndexVolume(dim) ==
    [header |-> [dim |-> dim, box_min |-> <<F32Zero, F32Zero, F32Zero>>, dx |-> F32One],
     voxels |-> [k \in 1..VoxelCount(dim) |-> k]]

Coords == {<<x, y, z>> : x \in 0..MaxDim, y \in 0..MaxDim, z \in 0..MaxDim}

Boxes == {BoundingBoxNew(lo, hi) : lo \in Coords, hi \in Coords}

SampleSeqs == UNION {[1..n -> SampleValues] : n \in 0..MaxSamples}

Request(op) == [op |-> op, done |-> FALSE, result |-> None,
                box |-> BoundingBoxNew(<<0, 0, 0>>, <<0, 0, 0>>), child_index |-> 0,
                position |-> <<0, 0, 0>>, size |-> 0,
                brick |-> BrickNew(0, <<0, 0, 0>>)]

InitCalls ==
    /\ \/ /\ \E b \in Boxes, i \in 0..7 :
                /\ \A a \in 1..3 : b.min[a] <= b.max[a]
                /\ call = [Request("child_bounds") EXCEPT !.box = b, !.child_index = i]
          /\ sdf = IndexVolume(<<1, 1, 1>>)
          /\ threshold = <<1, 100>>
          /\ overflow_checks = FALSE
       \/ /\ \E dim \in Dims : sdf = IndexVolume(dim)
          /\ \E position \in Coords, size \in 0..MaxEdge :
                call = [Request("extract_from_sdf") EXCEPT !.position = position, !.size = size]
          /\ threshold = <<1, 100>>
          /\ overflow_checks = FALSE
       \/ /\ \E data \in SampleSeqs, op \in {"has_surface", "is_uniform"} :
                call = [Request(op) EXCEPT !.brick = [data |-> data, size |-> Len(data), position |-> <<0, 0, 0>>]]
          /\ sdf = IndexVolume(<<1, 1, 1>>)
          /\ threshold \in CallThresholds
          /\ overflow_checks \in BOOLEAN
    /\ brick_size = 1
    /\ max_depth = 0
    /\ pc = "call"
    /\ stack = <<>>
    /\ svo = None
    /\ file = <<>>
    /\ loaded = None

Finish(result) ==
    /\ call' = [call EXCEPT !.result = result, !.done = TRUE]
    /\ UNCHANGED <<sdf, brick_size, max_depth, threshold, overflow_checks, pc, stack, svo, file, loaded>>

CallChildBounds ==
    /\ pc = "call" /\ ~call.done /\ call.op = "child_bounds"
    /\ Finish(ChildBounds(call.box, call.child_index))

CallExtractFromSdf ==
    /\ pc = "call" /\ ~call.done /\ call.op = "extract_from_sdf"
    /\ Finish(ExtractFromSdf(sdf, call.position, call.size))

CallHasSurface ==
    /\ pc = "call" /\ ~call.done /\ call.op = "has_surface"
    /\ Finish(HasSurface(call.brick, threshold, overflow_checks))

CallIsUniform ==
    /\ pc = "call" /\ ~call.done /\ call.op = "is_uniform"
    /\ Finish(IsUniform(call.brick, threshold))

NextCalls ==
    \/ CallChildBounds
    \/ CallExtractFromSdf
    \/ CallHasSurface
    \/ CallIsUniform

SpecCalls == InitCalls /\ [][NextCalls]_vars

(***************************************************************************)
(* from_sdf with a max_depth beyond what the grid allows: brick_size >= 1  *)
(* and depth limits larger than the number of halvings of any grid here.   *)
(***************************************************************************)
DeepDims == {<<2, 2, 2>>, <<3, 3, 3>>}
DeepDepths == {MaxDepth + 1, 4 * MaxDepth}

InitDeep ==
    /\ \E dim \in DeepDims, hf \in HeaderFloats, bg \in Values, sp \in Values, pos \in 0..(MaxDim * MaxDim * MaxDim) :
          /\ pos <= VoxelCount(dim)
          /\ (pos = 0) = (sp = bg)
          /\ sdf = Volume(dim, hf, bg, pos, sp)
    /\ brick_size \in 1..MaxBrick
    /\ max_depth \in DeepDepths
    /\ threshold \in FileThresholds
    /\ overflow_checks \in BOOLEAN
    /\ pc = "build"
    /\ stack = <<Frame(OctreeNodeNew(BoundingBoxNew(<<0, 0, 0>>, sdf.header.dim)), 0)>>
    /\ svo = [header |-> sdf.header,
              root |-> OctreeNodeNew(BoundingBoxNew(<<0, 0, 0>>, sdf.header.dim)),
              bricks |-> <<>>,
              brick_size |-> brick_size]
    /\ file = <<>>
    /\ loaded = None
    /\ call = NoCall

SpecDeep == InitDeep /\ [][NextBuild]_vars /\ WF_vars(NextBuild)

(***************************************************************************)
(* SvoTexture::flatten_octree (bin/rendersvosdf/svo_texture.rs)            *)
(***************************************************************************)
\* A u32 of a GPU record as its two 16-bit halves, high half first.
U32Halves(n) == <<n \div U16Modulus, n % U16Modulus>>

\* 0xFFFFFFFF
NoBrickIndex == <<U16Max, U16Max>>

\* node.brick_index.unwrap_or(0xFFFFFFFF)
BrickIndexOr(o) == IF IsSome(o) THEN U32Halves(Unwrap(o)) ELSE NoBrickIndex

\* let children_offset = if node.is_leaf { 0 } else { *node_index };
ChildrenOffset(node, current_index, node_index) ==
    IF node.is_leaf THEN 0 ELSE node_index

\* The record pushed for node; node_index has already been incremented.
OctreeNodeGpu(node, current_index, node_index) ==
    [bounds_min |-> node.bounds.min,
     bounds_max |-> node.bounds.max,
     brick_index |-> BrickIndexOr(node.brick_index),
     child_mask |-> ChildMask(node, 0),
     children_offset |-> ChildrenOffset(node, current_index, node_index),
     is_leaf |-> IF node.is_leaf THEN 1 ELSE 0]

RECURSIVE FlattenOctreeRecursive(_, _)
RECURSIVE FlattenChildren(_, _, _)

FlattenChildrenDescending(node, st, i) ==
    IF i >= 8 THEN st
    ELSE IF IsSome(node.children[8 - i])
         THEN FlattenChildren(node, FlattenOctreeRecursive(Unwrap(node.children[8 - i]), st), i + 1)
         ELSE FlattenChildren(node, st, i + 1)

\* The loop "for child in &node.children" from child i on.
FlattenChildren(node, st, i) ==
    IF i >= 8 THEN st
    ELSE IF IsSome(node.children[i + 1])
         THEN FlattenChildren(node, FlattenOctreeRecursive(Unwrap(node.children[i + 1]), st), i + 1)
         ELSE FlattenChildren(node, st, i + 1)

\* st holds the records pushed so far and the running node_index.
FlattenOctreeRecursive(node, st) ==
    LET current_index == st.node_index
        node_index == st.node_index + 1
        pushed == [nodes |-> Append(st.nodes, OctreeNodeGpu(node, current_index, node_index)),
                   node_index |-> node_index]
    IN IF ~node.is_leaf THEN FlattenChildren(node, pushed, 0) ELSE pushed

FlattenOctree(node) == FlattenOctreeRecursive(node, [nodes |-> <<>>, node_index |-> 0]).nodes

\* SvoTexture::new flattens the tree of the instance it is given.
Flatten ==
    /\ pc = "built"
    /\ call' = [op |-> "flatten_octree", result |-> FlattenOctree(svo.root)]
    /\ pc' = "flattened"
    /\ UNCHANGED <<sdf, brick_size, max_depth, threshold, overflow_checks, stack, svo, file, loaded>>

NextFlatten ==
    \/ BuildLeaf
    \/ BuildPrune
    \/ BuildSubdivide
    \/ BuildPanic
    \/ BuildChild
    \/ BuildReturn
    \/ BuildLoopEnd
    \/ BuildDone
    \/ Flatten

SpecFlatten == Init /\ [][NextFlatten]_vars

(***************************************************************************)
(* Properties                                                              *)
(***************************************************************************)
\* from_sdf has returned an instance.
Produced == pc \in {"built", "saved", "loaded"}

HasChild(node) == \E k \in 1..8 : IsSome(node.children[k])

\* All nodes of the tree rooted at node.
RECURSIVE NodesOf(_)
NodesOf(node) ==
    {node} \cup UNION {NodesOf(Unwrap(node.children[k])) : k \in {j \in 1..8 : IsSome(node.children[j])}}

\* A tree without its bounds: leaf flags, brick indices, present child slots.
RECURSIVE Topology(_)
Topology(node) ==
    [is_leaf |-> node.is_leaf,
     brick_index |-> node.brick_index,
     children |-> [k \in 1..8 |-> IF IsSome(node.children[k])
                                  THEN Some(Topology(Unwrap(node.children[k])))
                                  ELSE None]]

\* The sample of the volume at grid coordinate p (row-major, x fastest).
GridSample(p) ==
    sdf.voxels[1 + p[1] + sdf.header.dim[1] * (p[2] + sdf.header.dim[2] * p[3])]

\* The grid coordinates of the half-open box [lo, hi).
Points(lo, hi) ==
    {<<x, y, z>> : x \in lo[1]..(hi[1] - 1), y \in lo[2]..(hi[2] - 1), z \in lo[3]..(hi[3] - 1)}

\* v lies strictly below LEVEL_ZERO - t*65535, resp. strictly above
\* LEVEL_ZERO + t*65535, on the mathematical values (t = t[1]/t[2]).
StrictlyInside(v, t) == v * t[2] < 32768 * t[2] - t[1] * 65535
StrictlyOutside(v, t) == v * t[2] > 32768 * t[2] + t[1] * 65535

\* Every sample of the region P is within the quantized threshold of the
\* sample at `first`, and no two samples of P lie on opposite sides of
\* LEVEL_ZERO +/- threshold.
RegionUniform(P, first) ==
    /\ \A p \in P : Abs(GridSample(p) - GridSample(first)) <= (threshold[1] * 65535) \div threshold[2]
    /\ ~\E p \in P, r \in P : StrictlyInside(GridSample(p), threshold) /\ StrictlyOutside(GridSample(r), threshold)

\* The cube the coarse probe reads: edge = the smallest dimension of the box.
ProbeCube(b) ==
    LET e == Min2(b.max[1] - b.min[1], Min2(b.max[2] - b.min[2], b.max[3] - b.min[3]))
    IN Points(b.min, <<b.min[1] + e, b.min[2] + e, b.min[3] + e>>)

\* build_octree has just taken the prune branch for the node of the top frame.
JustPruned == pc = "build" /\ Len(stack) > 0 /\ Top.phase = "ret_prune"

\* C1: load(save(S)) has the header, brick_size and bricks of S, and a tree
\* with the same leaf flags, brick indices and present child slots.
C1_RoundTrip ==
    pc = "loaded" =>
        LET l == Unwrap(loaded)
        IN /\ l.header = svo.header
           /\ l.brick_size = svo.brick_size
           /\ Len(l.bricks) = Len(svo.bricks)
           /\ \A k \in 1..Len(svo.bricks) :
                 /\ l.bricks[k].size = svo.bricks[k].size
                 /\ l.bricks[k].position = svo.bricks[k].position
                 /\ l.bricks[k].data = svo.bricks[k].data
           /\ Topology(l.root) = Topology(svo.root)

C1_Witness ==
    /\ pc = "loaded"
    /\ Len(svo.bricks) >= 2
    /\ ~svo.root.is_leaf
    /\ \E k \in 1..8 : IsSome(svo.root.children[k]) /\ HasChild(Unwrap(svo.root.children[k]))

\* All samples of the volume hold the same value.
UniformVolume == \A k \in 1..Len(sdf.voxels) : sdf.voxels[k] = sdf.voxels[1]

\* C2: from_sdf over a volume whose samples are all equal returns a root
\* without brick and without children, and no bricks.
C2_UniformVolumeFullyPruned ==
    (pc = "built" /\ UniformVolume) =>
        /\ ~IsSome(svo.root.brick_index)
        /\ ~HasChild(svo.root)
        /\ svo.bricks = <<>>

C4_OctantConsistency ==
    (call.op = "child_bounds" /\ call.done) =>
        LET b == call.box
            c == call.result
            mid(a) == (b.min[a] + b.max[a]) \div 2
            bit(a) == (call.child_index \div (2 ^ (a - 1))) % 2
            Child(j) == ChildBounds(b, j)
        IN /\ \A a \in 1..3 :
                 IF bit(a) = 1
                 THEN c.min[a] = mid(a) /\ c.max[a] = b.max[a]
                 ELSE c.min[a] = b.min[a] /\ c.max[a] = mid(a)
           /\ \A p \in Points(b.min, b.max) :
                 Cardinality({j \in 0..7 : p \in Points(Child(j).min, Child(j).max)}) = 1
           /\ \A j \in 0..7 : Points(Child(j).min, Child(j).max) \subseteq Points(b.min, b.max)

C4_Witness ==
    /\ call.op = "child_bounds" /\ call.done
    /\ call.child_index = 5
    /\ Size(call.box) = <<3, 2, 1>>
    /\ call.box.min = <<0, 1, 2>>

\* C5: the extracted brick has size^3 samples; the sample at local (x, y, z)
\* is the source sample at position + (x, y, z) when that lies inside the
\* grid on all three axes, and 32768 otherwise.
C5_ExtractionFill ==
    (call.op = "extract_from_sdf" /\ call.done) =>
        LET b == call.result
            n == call.size
            dim == sdf.header.dim
        IN /\ b.size = n
           /\ b.position = call.position
           /\ Len(b.data) = n * n * n
           /\ \A x \in 0..(n - 1), y \in 0..(n - 1), z \in 0..(n - 1) :
                 LET g == <<call.position[1] + x, call.position[2] + y, call.position[3] + z>>
                 IN b.data[1 + x + n * (y + n * z)] =
                        IF g[1] < dim[1] /\ g[2] < dim[2] /\ g[3] < dim[3]
                        THEN GridSample(g)
                        ELSE 32768

\* A brick that overhangs the grid on the y axis only.
C5_Witness ==
    /\ call.op = "extract_from_sdf" /\ call.done
    /\ sdf.header.dim = <<3, 2, 3>>
    /\ call.position = <<1, 1, 1>>
    /\ call.size = 2

AllSame(data) == \A k \in 1..Len(data) : data[k] = data[1]

\* C6: on a brick whose samples are all equal, is_uniform returns true and
\* has_surface returns false, without fault, for every threshold in [0, 1].
C6_UniformBrick ==
    (call.done /\ AllSame(call.brick.data)) =>
        /\ call.op = "is_uniform" => call.result = TRUE
        /\ call.op = "has_surface" => (~call.result.panic /\ call.result.value = FALSE)

\* C7: has_surface returns true iff some sample is strictly below
\* LEVEL_ZERO - threshold*65535 and some sample strictly above
\* LEVEL_ZERO + threshold*65535.
C7_HasSurfaceIff ==
    (call.op = "has_surface" /\ call.done) =>
        /\ ~call.result.panic
        /\ call.result.value =
              (/\ \E k \in 1..Len(call.brick.data) : StrictlyInside(call.brick.data[k], threshold)
               /\ \E k \in 1..Len(call.brick.data) : StrictlyOutside(call.brick.data[k], threshold))

\* C8: is_uniform returns true iff every sample is within the quantized
\* threshold of the first sample; an empty buffer is uniform.
C8_IsUniformIff ==
    (call.op = "is_uniform" /\ call.done) =>
        LET data == call.brick.data
            q == (threshold[1] * 65535) \div threshold[2]
        IN /\ call.result = (\A k \in 1..Len(data) : data[1] - q <= data[k] /\ data[k] <= data[1] + q)
           /\ Len(data) = 0 => call.result = TRUE

\* A sample exactly at the quantized threshold from the first one.
C8_Witness ==
    /\ call.op = "is_uniform" /\ call.done
    /\ threshold = <<1, 100>>
    /\ call.brick.data = <<32768, 32113, 33423>>
    /\ call.result = TRUE

\* C9: in the tree returned by from_sdf, a node that is not a leaf has no
\* brick index, and a leaf has no children.
C9_NodeShape ==
    Produced =>
        \A n \in NodesOf(svo.root) :
            /\ ~n.is_leaf => ~IsSome(n.brick_index)
            /\ n.is_leaf => ~HasChild(n)

C9_Witness ==
    /\ pc = "built"
    /\ ~svo.root.is_leaf
    /\ \E k \in 1..8 :
          /\ IsSome(svo.root.children[k])
          /\ Unwrap(svo.root.children[k]).is_leaf
          /\ IsSome(Unwrap(svo.root.children[k]).brick_index)
    /\ \E k \in 1..8 :
          /\ IsSome(svo.root.children[k])
          /\ ~Unwrap(svo.root.children[k]).is_leaf
          /\ HasChild(Unwrap(svo.root.children[k]))

\* Every node stored in a child slot below `node` has a brick index or a
\* child: a stored leaf carries a brick, a stored internal node has a child.
StoredNonEmpty(node) ==
    \A n \in NodesOf(node) : \A k \in 1..8 :
        IsSome(n.children[k]) =>
            LET c == Unwrap(n.children[k])
            IN /\ IsSome(c.brick_index) \/ HasChild(c)
               /\ c.is_leaf => IsSome(c.brick_index)
               /\ ~c.is_leaf => HasChild(c)

\* C10: no empty node is ever stored in a child slot, in the returned tree
\* and in every node under construction; a slot whose call returned an
\* empty node stays absent.
C10_EmptyNeverRetained ==
    /\ Produced => StoredNonEmpty(svo.root)
    /\ pc = "build" =>
          \A d \in 1..Len(stack) :
              /\ StoredNonEmpty(stack[d].node)
              /\ \A k \in 1..8 : (stack[d].phase = "loop" /\ k > stack[d].i) => ~IsSome(stack[d].node.children[k])

\* A subdivided node below the root whose 8 children all came back empty
\* returns to its parent.
C10_Witness ==
    /\ pc = "build"
    /\ Len(stack) > 1
    /\ Top.phase = "ret_loop"
    /\ ~HasChild(Top.node)

\* The indices (from 1) of the samples that are not LEVEL_ZERO.
OffsetSamples == {k \in 1..Len(sdf.voxels) : sdf.voxels[k] # LEVEL_ZERO}

\* The 16x16x16 volume with one sample at the centre c that differs from
\* LEVEL_ZERO by more than the quantized threshold, brick_size 8, max_depth 1.
SingleOffsetScenario(c) ==
    /\ sdf.header.dim = <<16, 16, 16>>
    /\ OffsetSamples = {VoxelIndex(sdf.header.dim, c)}
    /\ Abs(sdf.voxels[VoxelIndex(sdf.header.dim, c)] - 32768) > (threshold[1] * 65535) \div threshold[2]
    /\ brick_size = 8
    /\ max_depth = 1

\* The octant of the 16x16x16 root that contains grid coordinate c.
OctantOf(c) ==
    (IF c[1] >= 8 THEN 1 ELSE 0) + (IF c[2] >= 8 THEN 2 ELSE 0) + (IF c[3] >= 8 THEN 4 ELSE 0)

\* The record of a leaf with a brick is 1 + 1 + 4 + 24 bytes long.
LeafWithBrickRecordLen == 1 + 1 + 4 + 6 * 4

\* C11: in the single-offset-sample scenario from_sdf returns a non-leaf
\* root whose only present child is the octant containing the offset sample;
\* that child is a leaf with brick index 0, there is exactly one brick, and
\* the childMask byte that save writes for the root has only that bit set.
C11_SingleOffsetSample ==
    \A c \in Centres :
        (pc \in {"built", "saved"} /\ SingleOffsetScenario(c)) =>
            LET i == OctantOf(c)
                child == Unwrap(svo.root.children[i + 1])
            IN /\ ~svo.root.is_leaf
               /\ {k \in 1..8 : IsSome(svo.root.children[k])} = {i + 1}
               /\ child.is_leaf
               /\ child.brick_index = Some(0)
               /\ ~HasChild(child)
               /\ Len(svo.bricks) = 1
               /\ pc = "saved" => file[Len(file) - LeafWithBrickRecordLen] = 2 ^ i

\* The scenario has been built and saved with the offset sample in octant 7.
C11_Witness ==
    /\ pc = "saved"
    /\ SingleOffsetScenario(<<8, 8, 8>>)
    /\ sdf.voxels[VoxelIndex(sdf.header.dim, <<8, 8, 8>>)] = 0
    /\ file[Len(file) - LeafWithBrickRecordLen] = 128

\* The 8x8x8 volume of LEVEL_ZERO with brick_size 8, max_depth 2 and
\* threshold 0.01.
AllLevelZeroScenario ==
    /\ sdf.header.dim = <<8, 8, 8>>
    /\ OffsetSamples = {}
    /\ brick_size = 8
    /\ max_depth = 2
    /\ threshold = <<1, 100>>

\* C12: in the all-LEVEL_ZERO scenario from_sdf returns a root that is a
\* leaf without brick index and without children, and no bricks.
C12_AllLevelZeroBuild ==
    (Produced /\ AllLevelZeroScenario) =>
        /\ svo.root.is_leaf
        /\ ~IsSome(svo.root.brick_index)
        /\ ~HasChild(svo.root)
        /\ svo.bricks = <<>>

C12_Witness ==
    /\ pc = "built"
    /\ AllLevelZeroScenario
    /\ svo.root.is_leaf

\* Header (8 fields of 4 bytes) and brick count (4 bytes) precede the bricks.
HeaderAndCountLen == 8 * 4 + 4

\* The tree section of a saved file that holds no bricks.
TreeSectionNoBricks == SubSeq(file, HeaderAndCountLen + 1, Len(file))

\* The record of the all-LEVEL_ZERO root: isLeaf = 1, hasBrick = 0 and the
\* six bounds words (0,0,0)-(8,8,8), least significant byte first.
ExpectedRootLeafRecord ==
    <<1, 0>> \o <<0, 0, 0, 0>> \o <<0, 0, 0, 0>> \o <<0, 0, 0, 0>>
             \o <<8, 0, 0, 0>> \o <<8, 0, 0, 0>> \o <<8, 0, 0, 0>>

\* C13 as stated: the tree section of the all-LEVEL_ZERO scenario is
\* isLeaf = 1, hasBrick = 0 and the six bounds words, 9 bytes in total.
C13_TreeSectionNineBytes ==
    (pc = "saved" /\ AllLevelZeroScenario) =>
        /\ TreeSectionNoBricks = ExpectedRootLeafRecord
        /\ Len(TreeSectionNoBricks) = 9

\* C13 amended: the tree section of the all-LEVEL_ZERO scenario is
\* isLeaf = 1, hasBrick = 0 and the six bounds words of 4 bytes each and
\* nothing else, 26 bytes in total.
C13_TreeSectionTwentySixBytes ==
    (pc = "saved" /\ AllLevelZeroScenario) =>
        /\ TreeSectionNoBricks = ExpectedRootLeafRecord
        /\ Len(TreeSectionNoBricks) = 26

C13_Witness ==
    /\ pc = "saved"
    /\ AllLevelZeroScenario
    /\ Len(file) = HeaderAndCountLen + 26

\* a is a strict prefix of b.
IsStrictPrefix(a, b) == Len(a) < Len(b) /\ a = SubSeq(b, 1, Len(a))

\* C14: when the file is a strict prefix of what save wrote, load can only
\* fail: it never returns an instance, and nothing of a partly read brick
\* list or tree is handed out.
C14_TruncatedLoadFails ==
    (pc \in {"tampered", "loaded", "load_failed"} /\ IsStrictPrefix(file, SaveBytes(svo))) =>
        /\ LoadBytes(file).loader.fault
        /\ pc # "loaded"
        /\ loaded = None

\* load has failed on a file that lacks only its last byte, for a tree with
\* a brick and a child.
C14_Witness ==
    /\ pc = "load_failed"
    /\ Len(file) = Len(SaveBytes(svo)) - 1
    /\ IsStrictPrefix(file, SaveBytes(svo))
    /\ HasChild(svo.root)
    /\ Len(svo.bricks) >= 1
    /\ loaded = None

\* C15: load never returns an instance in which a node refers to a brick
\* that is not in the brick collection, or in which a node that is not a
\* leaf carries a brick index: on such files load fails.
C15_InconsistentLoadFails ==
    pc = "loaded" =>
        \A n \in NodesOf(Unwrap(loaded).root) :
            /\ IsSome(n.brick_index) => Unwrap(n.brick_index) < Len(Unwrap(loaded).bricks)
            /\ ~n.is_leaf => ~IsSome(n.brick_index)

\* Length of the record serialize_node writes for node.
RecordLen(node) == Len(SerializeNode(node, <<>>))

\* Total length of the records of the children of node in slots below k.
RECURSIVE LenBefore(_, _)
LenBefore(node, k) ==
    IF k <= 1 THEN 0
    ELSE LenBefore(node, k - 1)
         + (IF IsSome(node.children[k - 1]) THEN RecordLen(Unwrap(node.children[k - 1])) ELSE 0)

\* The positions (from 1) of the bytes of the bounds words in the records of
\* node and its descendants, when the record of node starts after o bytes.
RECURSIVE BoundsPositions(_, _)
BoundsPositions(node, o) ==
    LET h == IF IsSome(node.brick_index) THEN 1 + 1 + 4 ELSE 1 + 1
    IN ((o + h + 1)..(o + h + 6 * 4))
       \cup UNION {BoundsPositions(Unwrap(node.children[k]), o + h + 6 * 4 + 1 + LenBefore(node, k)) :
                      k \in {j \in 1..8 : IsSome(node.children[j])}}

\* The file differs from what save wrote in bytes of bounds words at most.
OnlyBoundsWordsDiffer ==
    LET orig == SaveBytes(svo)
        tree == Len(orig) - RecordLen(svo.root)
    IN /\ Len(file) = Len(orig)
       /\ \A p \in 1..Len(orig) : file[p] # orig[p] => p \in BoundsPositions(svo.root, tree)

\* The bounds of node are `bounds`, those of the child in slot i are
\* child_bounds(i) of them, and so on down the tree.
RECURSIVE BoundsRecomputed(_, _)
BoundsRecomputed(node, bounds) ==
    /\ node.bounds = bounds
    /\ \A k \in 1..8 :
          IsSome(node.children[k]) => BoundsRecomputed(Unwrap(node.children[k]), ChildBounds(bounds, k - 1))

\* C16: a file that differs from the one save wrote only in bounds words
\* loads, and to the same instance as the file save wrote; the bounds of the
\* loaded nodes are the root box (0,0,0)-(header dim) split by child_bounds.
C16_StoredBoundsNotTrusted ==
    (pc \in {"tampered", "loaded", "load_failed"} /\ OnlyBoundsWordsDiffer) =>
        /\ ~LoadBytes(file).loader.fault
        /\ pc # "load_failed"
        /\ pc = "loaded" =>
              /\ Unwrap(loaded) = LoadBytes(SaveBytes(svo)).val
              /\ BoundsRecomputed(Unwrap(loaded).root,
                                  BoundingBoxNew(<<0, 0, 0>>, Unwrap(loaded).header.dim))

\* A file with an overwritten bounds word of a child record has been loaded.
C16_Witness ==
    /\ pc = "loaded"
    /\ OnlyBoundsWordsDiffer
    /\ HasChild(svo.root)
    /\ \E p \in 1..Len(file) :
          /\ file[p] # SaveBytes(svo)[p]
          /\ p > Len(file) - RecordLen(svo.root) + 1 + 1 + 6 * 4 + 1

\* The four bytes of a u32 word, least significant first.
Word(x) == <<x % 256, (x \div 256) % 256, (x \div 65536) % 256, (x \div 16777216) % 256>>

\* Length of the fields of a record before its bounds words.
FlagsLen(node) == IF IsSome(node.brick_index) THEN 1 + 1 + 4 ELSE 1 + 1

\* Length of the record of node in the stated layout: flags, brickIndex if
\* any, six words, and for a node that is not a leaf the childMask and the
\* records of the present children.
RECURSIVE LayoutLen(_)
LayoutLen(node) ==
    FlagsLen(node) + 6 * 4
    + (IF node.is_leaf THEN 0
       ELSE 1 + LET present == {k \in 1..8 : IsSome(node.children[k])}
                    len == [k \in present |-> LayoutLen(Unwrap(node.children[k]))]
                    RECURSIVE Sum(_)
                    Sum(K) == IF K = {} THEN 0
                              ELSE LET k == CHOOSE x \in K : TRUE IN len[k] + Sum(K \ {k})
                IN Sum(present))

\* Total stated length of the records of the present children in slots below k.
RECURSIVE LayoutLenBefore(_, _)
LayoutLenBefore(node, k) ==
    IF k <= 1 THEN 0
    ELSE LayoutLenBefore(node, k - 1)
         + (IF IsSome(node.children[k - 1]) THEN LayoutLen(Unwrap(node.children[k - 1])) ELSE 0)

\* The bytes after the first o hold the record of node in the stated layout.
RECURSIVE LayoutAt(_, _, _)
LayoutAt(bytes, node, o) ==
    LET h == FlagsLen(node)
        b == node.bounds
    IN /\ o + LayoutLen(node) <= Len(bytes)
       /\ bytes[o + 1] = (IF node.is_leaf THEN 1 ELSE 0)
       /\ bytes[o + 2] = (IF IsSome(node.brick_index) THEN 1 ELSE 0)
       /\ IsSome(node.brick_index) => SubSeq(bytes, o + 3, o + 6) = Word(Unwrap(node.brick_index))
       /\ SubSeq(bytes, o + h + 1, o + h + 24) =
              Word(b.min[1]) \o Word(b.min[2]) \o Word(b.min[3])
              \o Word(b.max[1]) \o Word(b.max[2]) \o Word(b.max[3])
       /\ ~node.is_leaf =>
              /\ \A i \in 0..7 : ((bytes[o + h + 25] \div (2 ^ i)) % 2 = 1) = IsSome(node.children[i + 1])
              /\ bytes[o + h + 25] < 256
              /\ \A k \in 1..8 :
                    IsSome(node.children[k]) =>
                        LayoutAt(bytes, Unwrap(node.children[k]), o + h + 25 + LayoutLenBefore(node, k))

\* Length of the header, the brick count and the bricks of the instance.
BricksEnd ==
    LET len == [k \in 1..Len(svo.bricks) |-> 4 * 4 + 2 * Len(svo.bricks[k].data)]
        RECURSIVE Sum(_)
        Sum(k) == IF k = 0 THEN 0 ELSE len[k] + Sum(k - 1)
    IN 8 * 4 + 4 + Sum(Len(svo.bricks))

\* C17: the tree section save writes is the record of the root in the
\* layout isLeaf, hasBrick, brickIndex only with hasBrick = 1, six bounds
\* words, and only for a node that is not a leaf a childMask with bit i set
\* exactly when child i is present, followed by the records of the present
\* children in increasing slot order; nothing follows the root's record.
C17_TreeRecordLayout ==
    pc = "saved" =>
        /\ LayoutAt(file, svo.root, BricksEnd)
        /\ Len(file) = BricksEnd + LayoutLen(svo.root)
        /\ svo.root.is_leaf => Len(file) = BricksEnd + FlagsLen(svo.root) + 6 * 4

\* Saved: a root with a leaf child that has a brick and a child that is not
\* a leaf and has children of its own.
C17_Witness ==
    /\ pc = "saved"
    /\ ~svo.root.is_leaf
    /\ \E k \in 1..8 :
          /\ IsSome(svo.root.children[k])
          /\ Unwrap(svo.root.children[k]).is_leaf
          /\ IsSome(Unwrap(svo.root.children[k]).brick_index)
    /\ \E k \in 1..8 :
          /\ IsSome(svo.root.children[k])
          /\ ~Unwrap(svo.root.children[k]).is_leaf
          /\ HasChild(Unwrap(svo.root.children[k]))
    /\ ~IsSome(svo.root.children[1])

\* C18: saving the instance that load returned for the file save wrote
\* gives that file again, byte for byte, bounds words included.
C18_ByteForByte ==
    pc = "loaded" => SaveBytes(Unwrap(loaded)) = file

\* Loaded again: a tree with bricks, and children below a child of the root.
C18_Witness ==
    /\ pc = "loaded"
    /\ Len(svo.bricks) >= 2
    /\ \E k \in 1..8 : IsSome(svo.root.children[k]) /\ HasChild(Unwrap(svo.root.children[k]))
    /\ SaveBytes(Unwrap(loaded)) = file

\* Number of levels below node (0 for a node without children).
RECURSIVE Height(_)
Height(node) ==
    IF ~HasChild(node) THEN 0
    ELSE LET hs == {Height(Unwrap(node.children[k])) : k \in {j \in 1..8 : IsSome(node.children[j])}}
         IN 1 + CHOOSE h \in hs : \A g \in hs : g <= h

\* Every active call of build_octree has depth at most max_depth (the call
\* at position d of the stack has depth d - 1), and no node of the returned
\* tree lies deeper than max_depth.
DepthBounded ==
    /\ pc = "build" =>
          /\ Len(stack) <= max_depth + 1
          /\ \A d \in 1..Len(stack) : stack[d].depth = d - 1 /\ stack[d].depth <= max_depth
    /\ pc = "built" => Height(svo.root) <= max_depth

\* from_sdf has returned, or the process has aborted in has_surface.
BuildOver == pc \in {"built", "panic"}

\* C19: the build comes to an end, build_octree is never entered with a
\* depth above max_depth, and no node of the result is deeper than max_depth.
C19_BuildTerminatesWithinDepth == []DepthBounded /\ <>BuildOver

\* A build that subdivided has returned a tree as deep as max_depth allows.
C19_Witness ==
    /\ pc = "built"
    /\ max_depth > 0
    /\ Height(svo.root) = max_depth

\* round(threshold * 65535): the nearest integer, halves rounded up.
RoundedThreshold(t) == (2 * t[1] * 65535 + t[2]) \div (2 * t[2])

\* Every sample is within `bound` of the first one.
UniformWithin(data, bound) ==
    \A k \in 1..Len(data) : Abs(data[k] - data[1]) <= bound

\* C20: is_uniform compares against round(threshold * 65535), rounded to
\* the nearest integer: a finished call answers whether every sample is
\* within that rounded value of the first sample.
C20_ThresholdRoundedToNearest ==
    (pc = "call" /\ call.done /\ call.op = "is_uniform") =>
        call.result = UniformWithin(call.brick.data, RoundedThreshold(threshold))

\* The step appends exactly one brick at the end of the collection, and the
\* leaf being finished carries the length the collection had before.
AppendsOneBrick ==
    /\ Len(svo'.bricks) = Len(svo.bricks) + 1
    /\ SubSeq(svo'.bricks, 1, Len(svo.bricks)) = svo.bricks
    /\ pc' = "build"
    /\ Len(stack') = Len(stack)
    /\ stack'[Len(stack')].node.is_leaf
    /\ stack'[Len(stack')].node.brick_index = Some(Len(svo.bricks))

\* C21: every step of the build leaves the brick collection as it is or
\* appends one brick at its end; bricks already stored keep their content
\* and place; the leaf's brick_index is the length before the append.
C21_BricksAppendOnly ==
    [][pc = "build" => (svo'.bricks = svo.bricks \/ AppendsOneBrick)]_vars

\* A second brick has just been appended and its leaf is about to return.
C21_Witness ==
    /\ pc = "build"
    /\ Len(svo.bricks) >= 2
    /\ Top.phase = "ret_leaf"
    /\ Top.node.brick_index = Some(Len(svo.bricks) - 1)

\* The paths (child slots from the root, 0-based) of the nodes below and
\* including the node at `path`, depth first, children by increasing slot.
RECURSIVE PreOrderPaths(_, _)
RECURSIVE PreOrderFrom(_, _, _)
PreOrderFrom(node, path, k) ==
    IF k > 8 THEN <<>>
    ELSE (IF IsSome(node.children[k])
          THEN PreOrderPaths(Unwrap(node.children[k]), Append(path, k - 1))
          ELSE <<>>) \o PreOrderFrom(node, path, k + 1)

PreOrderPaths(node, path) == <<path>> \o PreOrderFrom(node, path, 1)

RECURSIVE NodeAt(_, _)
NodeAt(node, path) ==
    IF path = <<>> THEN node
    ELSE NodeAt(Unwrap(node.children[path[1] + 1]), SubSeq(path, 2, Len(path)))

LowestChild(node) == CHOOSE i \in 0..7 : IsSome(node.children[i + 1]) /\ \A j \in 0..(i - 1) : ~IsSome(node.children[j + 1])

\* The 0-based array index of the record of the node at `path`.
IndexOfPath(paths, path) == (CHOOSE j \in 1..Len(paths) : paths[j] = path) - 1

\* The record describes the node at position j of the pre-order.
RecordMatches(root, paths, rec, j) ==
    LET node == NodeAt(root, paths[j])
    IN /\ (rec.brick_index = NoBrickIndex) = ~IsSome(node.brick_index)
       /\ IsSome(node.brick_index) => rec.brick_index = U32Halves(Unwrap(node.brick_index))
       /\ \A i \in 0..7 : ((rec.child_mask \div (2 ^ i)) % 2 = 1) = IsSome(node.children[i + 1])
       /\ (~node.is_leaf /\ HasChild(node)) =>
              rec.children_offset = IndexOfPath(paths, Append(paths[j], LowestChild(node)))

\* C22: flatten_octree gives one record per node in depth-first pre-order;
\* brick_index is 0xFFFFFFFF exactly for nodes without a brick and the
\* node's index otherwise, child_mask has bit i exactly for present child
\* i, and children_offset of a non-leaf with children is the array index
\* of the record of its lowest present child.
C22_FlattenPreOrder ==
    pc = "flattened" =>
        LET paths == PreOrderPaths(svo.root, <<>>)
        IN /\ Len(call.result) = Len(paths)
           /\ \A j \in 1..Len(paths) : RecordMatches(svo.root, paths, call.result[j], j)

\* A tree with a non-leaf child (two levels of children) that holds bricks
\* has been flattened.
C22_Witness ==
    /\ pc = "flattened"
    /\ Len(svo.bricks) >= 2
    /\ \E k \in 1..8 : IsSome(svo.root.children[k]) /\ HasChild(Unwrap(svo.root.children[k]))
    /\ \E k \in 2..8 : IsSome(svo.root.children[k]) /\ IsSome(svo.root.children[k - 1])

\* depth >= max_depth, or the box fits within one brick.
MustBeLeaf(node, depth) ==
    \/ depth >= max_depth
    \/ \A a \in 1..3 : node.bounds.max[a] - node.bounds.min[a] <= brick_size

LargestDim(node) ==
    Max2(node.bounds.max[1] - node.bounds.min[1],
         Max2(node.bounds.max[2] - node.bounds.min[2], node.bounds.max[3] - node.bounds.min[3]))

\* The brick at bounds.min with edge min(brick_size, largest dimension) has
\* a surface or is not uniform.
MustCarryBrick(node) ==
    LET brick == ExtractFromSdf(sdf, node.bounds.min, Min2(brick_size, LargestDim(node)))
    IN HasSurface(brick, threshold, overflow_checks).value \/ ~IsUniform(brick, threshold)

\* C23: in a built tree a node is a leaf exactly when its depth is at least
\* max_depth or its box fits within one brick, and a leaf carries a brick
\* exactly when the brick extracted for it has a surface or is not uniform.
C23_LeafDecision ==
    pc = "built" =>
        LET paths == PreOrderPaths(svo.root, <<>>)
        IN \A j \in 1..Len(paths) :
              LET node == NodeAt(svo.root, paths[j])
              IN /\ node.is_leaf = MustBeLeaf(node, Len(paths[j]))
                 /\ node.is_leaf => (IsSome(node.brick_index) = MustCarryBrick(node))

\* A built tree with a non-leaf root and a retained leaf that is a leaf only
\* because of its depth: its box is larger than a brick.
C23_Witness ==
    /\ pc = "built"
    /\ ~svo.root.is_leaf
    /\ \E k \in 1..8 :
          /\ IsSome(svo.root.children[k])
          /\ Unwrap(svo.root.children[k]).is_leaf
          /\ IsSome(Unwrap(svo.root.children[k]).brick_index)
          /\ LargestDim(Unwrap(svo.root.children[k])) > brick_size

\* The paths of the nodes that carry a brick index, in depth-first order.
BrickCarriers(root) ==
    LET CarriesBrick(path) == IsSome(NodeAt(root, path).brick_index)
    IN SelectSeq(PreOrderPaths(root, <<>>), CarriesBrick)

\* C24: in a built instance with n bricks, the leaves that carry a brick
\* index, visited depth first with children by increasing slot, carry the
\* indices 0, 1, ..., n-1 in that order; only leaves carry one.
C24_BrickIndicesInBuildOrder ==
    pc = "built" =>
        LET carriers == BrickCarriers(svo.root)
        IN /\ Len(carriers) = Len(svo.bricks)
           /\ \A j \in 1..Len(carriers) :
                 /\ NodeAt(svo.root, carriers[j]).brick_index = Some(j - 1)
                 /\ NodeAt(svo.root, carriers[j]).is_leaf

\* A built tree whose leaves below a non-leaf root carry three bricks or more.
C24_Witness ==
    /\ pc = "built"
    /\ ~svo.root.is_leaf
    /\ Len(svo.bricks) >= 3
    /\ Len(BrickCarriers(svo.root)) >= 3

\* The quantized threshold leaves LEVEL_ZERO -/+ q within 16 bits.
NoWrap == ThresholdU16(threshold) <= LEVEL_ZERO - 1

\* C25: without 16-bit wrap, a brick for which has_surface returned true is
\* not uniform at the same threshold, so the retention test and the prune
\* test of the builder are decided by is_uniform alone.
C25_SurfaceImpliesNonUniform ==
    (pc = "call" /\ call.done /\ call.op = "has_surface" /\ NoWrap) =>
        /\ ~call.result.panic
        /\ call.result.value => ~IsUniform(call.brick, threshold)
        /\ StoreBrick(call.brick) = ~IsUniform(call.brick, threshold)
        /\ SkipRegion(call.brick) = IsUniform(call.brick, threshold)

\* has_surface has returned true at the default threshold for a brick whose
\* samples lie just beyond LEVEL_ZERO -/+ 655.
C25_Witness ==
    /\ pc = "call" /\ call.done /\ call.op = "has_surface"
    /\ threshold = <<1, 100>>
    /\ ~call.result.panic /\ call.result.value
    /\ \A k \in 1..Len(call.brick.data) : call.brick.data[k] \in {32112, 33424}

\* The paths of the leaves that carry a brick.
BrickLeaves(root) ==
    LET IsBrickLeaf(path) == NodeAt(root, path).is_leaf /\ IsSome(NodeAt(root, path).brick_index)
    IN SelectSeq(PreOrderPaths(root, <<>>), IsBrickLeaf)

BrickOf(node) == svo.bricks[Unwrap(node.brick_index) + 1]

\* The cube [position, position + size)^3 of the brick contains the box.
CubeCovers(brick, bounds) ==
    \A a \in 1..3 : brick.position[a] <= bounds.min[a] /\ bounds.max[a] <= brick.position[a] + brick.size

\* C26: in a built instance the cube of the brick of every brick-carrying
\* leaf contains every voxel of the leaf's bounds, also for leaves made at
\* max_depth whose bounds are larger than brick_size.
C26_BricksCoverLeaf ==
    pc = "built" =>
        LET leaves == BrickLeaves(svo.root)
        IN \A j \in 1..Len(leaves) :
              CubeCovers(BrickOf(NodeAt(svo.root, leaves[j])), NodeAt(svo.root, leaves[j]).bounds)

\* The cube [position, position + size)^3 of the brick lies within the box.
CubeWithin(brick, bounds) ==
    \A a \in 1..3 : bounds.min[a] <= brick.position[a] /\ brick.position[a] + brick.size <= bounds.max[a]

\* The cubes of the two bricks have a voxel in common.
CubesOverlap(b1, b2) ==
    /\ b1.size > 0 /\ b2.size > 0
    /\ \A a \in 1..3 : b1.position[a] < b2.position[a] + b2.size /\ b2.position[a] < b1.position[a] + b1.size

\* C27: every retained brick sits at its leaf's bounds.min, has size at
\* most brick_size and a cube within the leaf's bounds, and the cubes of
\* two distinct retained bricks do not overlap.
C27_BricksStayInsideLeaf ==
    pc = "built" =>
        LET leaves == BrickLeaves(svo.root)
        IN /\ \A j \in 1..Len(leaves) :
                 LET node == NodeAt(svo.root, leaves[j])
                 IN /\ BrickOf(node).position = node.bounds.min
                    /\ BrickOf(node).size <= brick_size
                    /\ CubeWithin(BrickOf(node), node.bounds)
           /\ \A i, j \in 1..Len(svo.bricks) : i # j => ~CubesOverlap(svo.bricks[i], svo.bricks[j])

\* The six bounds words of the record of node, which starts after o bytes,
\* and of the records of its descendants hold the bounds of the nodes.
RECURSIVE StoredBoundsAt(_, _, _)
StoredBoundsAt(bytes, node, o) ==
    LET h == FlagsLen(node)
        b == node.bounds
    IN /\ SubSeq(bytes, o + h + 1, o + h + 24) =
              Word(b.min[1]) \o Word(b.min[2]) \o Word(b.min[3])
              \o Word(b.max[1]) \o Word(b.max[2]) \o Word(b.max[3])
       /\ \A k \in 1..8 :
              IsSome(node.children[k]) =>
                  StoredBoundsAt(bytes, Unwrap(node.children[k]), o + h + 25 + LayoutLenBefore(node, k))

\* C28: for a file save wrote from a built instance, the loaded tree has
\* the nodes of the built tree, every loaded node has the bounds of the
\* built node in its place, and these are the six words stored in the
\* node's record.
C28_RecomputedBoundsAgree ==
    pc = "loaded" =>
        LET paths == PreOrderPaths(svo.root, <<>>)
            root == Unwrap(loaded).root
        IN /\ PreOrderPaths(root, <<>>) = paths
           /\ \A j \in 1..Len(paths) : NodeAt(root, paths[j]).bounds = NodeAt(svo.root, paths[j]).bounds
           /\ StoredBoundsAt(file, root, BricksEnd)

\* Loaded: a tree over a grid that is not a cube, with children below a
\* child of the root.
C28_Witness ==
    /\ pc = "loaded"
    /\ sdf.header.dim[1] # sdf.header.dim[3]
    /\ \E k \in 1..8 :
          /\ IsSome(Unwrap(loaded).root.children[k])
          /\ HasChild(Unwrap(Unwrap(loaded).root.children[k]))

\* ceil(log2(n)) for n >= 1: the least k with 2^k >= n.
CeilLog2(n) == CHOOSE k \in 0..n : 2 ^ k >= n /\ \A j \in 0..(k - 1) : 2 ^ j < n

\* The largest grid dimension.
LargestGridDim == Max2(sdf.header.dim[1], Max2(sdf.header.dim[2], sdf.header.dim[3]))

\* Each dimension of the child box is the floor or the ceiling of half the
\* parent's.
HalvedFrom(child, parent) ==
    \A a \in 1..3 :
        LET s == parent.max[a] - parent.min[a]
        IN child.max[a] - child.min[a] \in {s \div 2, (s + 1) \div 2}

\* No active call has subdivided at depth ceil(log2(D)) or deeper, every
\* child box is a halving of its parent's, and the returned tree is no
\* deeper than ceil(log2(D)).
GridBounded ==
    /\ pc = "build" =>
          \A d \in 1..Len(stack) :
              /\ stack[d].phase \in {"loop", "ret_loop"} => stack[d].depth < CeilLog2(LargestGridDim)
              /\ d > 1 => HalvedFrom(stack[d].node.bounds, stack[d - 1].node.bounds)
    /\ pc = "built" => Height(svo.root) <= CeilLog2(LargestGridDim)

\* C29: with brick_size >= 1 and a max_depth larger than the grid needs,
\* child boxes halve their parent's dimensions, no node is subdivided at
\* depth ceil(log2(D)) or deeper (D the largest grid dimension), and the
\* build ends with a tree of depth at most ceil(log2(D)).
C29_DepthBoundedByGrid == []GridBounded /\ <>BuildOver

\* A tree of depth ceil(log2(3)) = 2 has been returned by a build whose
\* max_depth is larger.
C29_Witness ==
    /\ pc = "built"
    /\ max_depth > CeilLog2(LargestGridDim)
    /\ Height(svo.root) = CeilLog2(LargestGridDim)
    /\ Height(svo.root) > 1

\* C30: for the file save wrote, load reads the fields in the order and
\* widths in which save wrote them: it never reads past the end, it gives
\* back the header, brick_size, bricks and tree that were saved, and when
\* it returns it has consumed the file to its last byte.
C30_ReaderWriterInStep ==
    pc \in {"saved", "loaded"} =>
        LET r == LoadBytes(file)
        IN /\ ~r.loader.fault
           /\ r.loader.pos = Len(file)
           /\ r.val = svo
           /\ pc = "loaded" => Unwrap(loaded) = svo

\* Loaded: an instance with two bricks or more and children below a child
\* of the root.
C30_Witness ==
    /\ pc = "loaded"
    /\ Len(Unwrap(loaded).bricks) >= 2
    /\ LoadBytes(file).loader.pos = Len(file)
    /\ \E k \in 1..8 :
          /\ IsSome(Unwrap(loaded).root.children[k])
          /\ HasChild(Unwrap(Unwrap(loaded).root.children[k]))

====
